---- MODULE Spec2Model ----
(***************************************************************************)
(* MedRouter client: the upload / poll / download workflow of              *)
(* tutos/slicer_runner.py (MedRouterClient) and the polling loop of        *)
(* tutos/get_request.py, as a sequential state machine.  The remote        *)
(* server, the Slicer scene and the file system are the environment: every *)
(* HTTP response, export and import outcome is a nondeterministic input.   *)
(***************************************************************************)
EXTENDS Integers, Sequences, FiniteSets, TLC

VARIABLES
    script,           \* which program runs: "slicer_runner" or "get_request"
    pc,               \* position of the single thread
    exc,              \* exception the program ended with ("none" if none)
    cause,            \* which check or call raised it
    model,            \* self.model
    model_id,         \* self.model_id
    upload_format,    \* self.upload_format
    download_format,  \* self.download_format
    extra_output,     \* self.extra_output
    poll_delay,       \* self.poll_delay
    show_progress,    \* constructor argument show_progress
    progress,         \* self._progress: "none" | "open" | "closed"
    hasVolume,        \* the scene holds a vtkMRMLScalarVolumeNode
    notes,            \* argument of run
    work_dir,         \* export directory: "none" | "exists" | "removed"
    dl_dir,           \* download directory: "none" | "exists" | "removed"
    payload,          \* form data of the upload request
    respRid,          \* request_id field of the upload response
    rid,              \* local rid of run
    nQueries,         \* status queries issued
    lastStatus,       \* status of the last answered status query
    processedRid,     \* request id a "processed" answer was received for
    respOutput,       \* "output" field of the processed response
    outputs,          \* local outputs of run
    sleepsLeft,       \* remaining iterations of the sleep loop
    sleptSinceQuery,  \* seconds slept since the last status query
    lastGap,          \* seconds slept between the last two status queries
    lastStep,         \* kind of the last HTTP request
    lastCode,         \* status code of the last HTTP response
    downloaded,       \* URLs fetched and saved by _download, in order
    imported          \* _import completed

config == <<script, model, model_id, upload_format, download_format, extra_output,
            poll_delay, show_progress, hasVolume>>
http   == <<lastStep, lastCode>>
upload == <<payload, respRid, rid>>
poll   == <<nQueries, lastStatus, processedRid, respOutput, outputs,
            sleepsLeft, sleptSinceQuery, lastGap>>
fetch  == <<downloaded, imported>>
vars   == <<config, pc, exc, cause, progress, notes, work_dir, dl_dir,
            http, upload, poll, fetch>>

----------------------------------------------------------------------------
(* Bounds of the model *)

MaxQueries == 3
MaxPollDelay == 2
MaxUrls == 2

(* Program constants *)

max_retries == 2
TutorialInterval == 10

(* Input domains *)

NoneVal == "None"
Formats == {"nifti", "stl"}
FormatArgs == {"nifti", "stl", "dicom"}
ExtraOutputs == {NoneVal, "", "ply"}
PollDelays == (0 - 1)..MaxPollDelay
Models == {"total-segmentator"}
ModelIds == {570}
Notes == {"", "Sent from Slicer"}
RequestIds == {NoneVal, "", "r1"}
Statuses == {"pending", "processed", "failed"}
Codes == {200, 304, 404, 500}
Url(f, i) == <<f, i>>
UrlList(f, n) == [i \in 1..n |-> Url(f, i)]
OutputDicts == UNION {{[f \in F |-> UrlList(f, len[f])] : len \in [F -> 0..MaxUrls]}
                        : F \in SUBSET Formats}
EmptyDict == [f \in {} |-> <<>>]
OutputFields == {[has |-> FALSE, val |-> EmptyDict]}
                    \cup {[has |-> TRUE, val |-> o] : o \in OutputDicts}

----------------------------------------------------------------------------
(* Helpers *)

(* str(model_id) *)
Str(n) == ToString(n)

(* requests.Response.raise_for_status raises HTTPError for 4xx and 5xx. *)
raise_for_statusNo4xx(code) == code >= 500 /\ code < 600
raise_for_status(code) == code >= 400 /\ code < 600

(* Python truthiness of the request_id read with .get("request_id"). *)
TruthyNotNone(v) == v # NoneVal
Truthy(v) == v \notin {NoneVal, ""}

(* The only status that ends _poll_until_ready. *)
IsReadyNotPending(status) == status # "pending"
IsReady(status) == status = "processed"

(* The break condition of the get_request.py loop. *)
TutorialDone(status) == status = "processed" \/ status = "failed"

(* The form data built by _post. *)
Payload(m, mid, n, eo) ==
    IF Truthy(eo)
    THEN [model |-> m, model_id |-> mid, notes |-> n, extra_output_type |-> eo]
    ELSE [model |-> m, model_id |-> mid, notes |-> n]

(* Number of iterations of "for _ in range(self.poll_delay)". *)
RangeLen(n) == IF n > 0 THEN n ELSE 0

(* outputs[want].items(): the URLs _download fetches, in order. *)
WantedUrls(outs, want) == outs[want]

(* "if self._progress: self._progress.close()" *)
Close(p) == IF p = "open" THEN "closed" ELSE p

(* An exception raised inside the outer try of run: the outer finally      *)
(* removes work_dir and closes the progress dialog; dl_dir is untouched.   *)
RaiseInTry(e, c) ==
    /\ pc' = "raised"
    /\ exc' = e
    /\ cause' = c
    /\ work_dir' = "removed"
    /\ progress' = Close(progress)

----------------------------------------------------------------------------
(* Initial states: nothing constructed yet (slicer_runner.py), or the      *)
(* tutorial loop about to issue its first query (get_request.py).          *)

Init ==
    /\ script \in {"slicer_runner", "get_request"}
    /\ pc = IF script = "slicer_runner" THEN "start" ELSE "poll"
    /\ exc = "none"
    /\ cause = "none"
    /\ model = NoneVal
    /\ model_id = NoneVal
    /\ upload_format = NoneVal
    /\ download_format = NoneVal
    /\ extra_output = NoneVal
    /\ poll_delay = 0
    /\ show_progress = FALSE
    /\ progress = "none"
    /\ hasVolume \in IF script = "slicer_runner" THEN BOOLEAN ELSE {FALSE}
    /\ notes = ""
    /\ work_dir = "none"
    /\ dl_dir = "none"
    /\ payload = EmptyDict
    /\ respRid = NoneVal
    /\ rid = NoneVal
    /\ nQueries = 0
    /\ lastStatus = NoneVal
    /\ processedRid = NoneVal
    /\ respOutput = [has |-> FALSE, val |-> EmptyDict]
    /\ outputs = EmptyDict
    /\ sleepsLeft = 0
    /\ sleptSinceQuery = 0
    /\ lastGap = {}
    /\ lastStep = "none"
    /\ lastCode = 0
    /\ downloaded = <<>>
    /\ imported = FALSE

----------------------------------------------------------------------------
(* MedRouterClient.__init__ *)
Construct(m, mid, uf, df, eo, pd, sp) ==
    /\ script = "slicer_runner"
    /\ pc = "start"
    /\ IF uf \notin {"nifti", "dicom"} \/ df \notin {"nifti", "stl"}
       THEN /\ pc' = "ctor_error"
            /\ exc' = "ValueError"
            /\ cause' = "bad_format"
            /\ UNCHANGED <<model, model_id, upload_format, download_format,
                           extra_output, poll_delay, show_progress, progress>>
       ELSE /\ pc' = "constructed"
            /\ model' = m
            /\ model_id' = Str(mid)
            /\ upload_format' = uf
            /\ download_format' = df
            /\ extra_output' = eo
            /\ poll_delay' = pd
            /\ show_progress' = sp
            /\ progress' = IF sp THEN "open" ELSE "none"
            /\ UNCHANGED <<exc, cause>>
    /\ UNCHANGED <<script, hasVolume, notes, work_dir, dl_dir, http, upload,
                   poll, fetch>>

(* run, up to _find_first_volume: outside the try block. *)
RunFindVolume(n) ==
    /\ script = "slicer_runner"
    /\ pc = "constructed"
    /\ notes' = n
    /\ IF hasVolume
       THEN pc' = "export" /\ UNCHANGED <<exc, cause>>
       ELSE pc' = "raised" /\ exc' = "RuntimeError" /\ cause' = "no_volume"
    /\ UNCHANGED <<config, progress, work_dir, dl_dir, http, upload, poll, fetch>>

(* _export_nifti / _export_dicom_zip: mkdtemp, then the Slicer export,     *)
(* which may raise; still outside the try block.                           *)
Export(ok) ==
    /\ script = "slicer_runner"
    /\ pc = "export"
    /\ work_dir' = "exists"
    /\ IF ok
       THEN pc' = "post" /\ UNCHANGED <<exc, cause>>
       ELSE pc' = "raised" /\ exc' = "SlicerError" /\ cause' = "export"
    /\ UNCHANGED <<config, progress, notes, dl_dir, http, upload, poll, fetch>>

(* _post *)
Post(code, reqid) ==
    /\ script = "slicer_runner"
    /\ pc = "post"
    /\ payload' = Payload(model, model_id, notes, extra_output)
    /\ lastStep' = "upload"
    /\ lastCode' = code
    /\ respRid' = reqid
    /\ IF raise_for_status(code)
       THEN RaiseInTry("HTTPError", "http") /\ UNCHANGED rid
       ELSE IF ~Truthy(reqid)
       THEN RaiseInTry("RuntimeError", "no_request_id") /\ UNCHANGED rid
       ELSE /\ rid' = reqid
            /\ pc' = "poll"
            /\ UNCHANGED <<exc, cause, work_dir, progress>>
    /\ UNCHANGED <<config, notes, dl_dir, poll, fetch>>

(* One iteration of _poll_until_ready up to the sleep loop: the status     *)
(* query, raise_for_status, the "processed" test and info["output"].       *)
PollQuery(code, status, out) ==
    /\ script = "slicer_runner"
    /\ pc = "poll"
    /\ nQueries < MaxQueries
    /\ nQueries' = nQueries + 1
    /\ lastStep' = "status"
    /\ lastCode' = code
    /\ lastGap' = IF nQueries > 0 THEN {sleptSinceQuery} ELSE lastGap
    /\ sleptSinceQuery' = 0
    /\ IF raise_for_status(code)
       THEN /\ RaiseInTry("HTTPError", "http")
            /\ UNCHANGED <<lastStatus, processedRid, respOutput, outputs, sleepsLeft>>
       ELSE /\ lastStatus' = status
            /\ IF IsReady(status)
               THEN /\ processedRid' = IF status = "processed" THEN rid ELSE processedRid
                    /\ respOutput' = out
                    /\ UNCHANGED sleepsLeft
                    /\ IF out.has
                       THEN /\ outputs' = out.val
                            /\ pc' = "download"
                            /\ UNCHANGED <<exc, cause, work_dir, progress>>
                       ELSE /\ RaiseInTry("KeyError", "no_output")
                            /\ UNCHANGED outputs
               ELSE /\ sleepsLeft' = RangeLen(poll_delay)
                    /\ pc' = IF sleepsLeft' > 0 THEN "sleep" ELSE "poll"
                    /\ UNCHANGED <<processedRid, respOutput, outputs, exc, cause,
                                   work_dir, progress>>
    /\ UNCHANGED <<config, notes, dl_dir, upload, fetch>>

(* One iteration of the sleep loop of _poll_until_ready: time.sleep(1). *)
Sleep ==
    /\ script = "slicer_runner"
    /\ pc = "sleep"
    /\ sleepsLeft' = sleepsLeft - 1
    /\ sleptSinceQuery' = sleptSinceQuery + 1
    /\ pc' = IF sleepsLeft' > 0 THEN "sleep" ELSE "poll"
    /\ UNCHANGED <<config, exc, cause, progress, notes, work_dir, dl_dir, http,
                   upload, nQueries, lastStatus, processedRid, respOutput,
                   outputs, lastGap, fetch>>

(* _download up to its loop: the format test and mkdtemp. *)
DownloadBegin ==
    /\ script = "slicer_runner"
    /\ pc = "download"
    /\ IF download_format \notin DOMAIN outputs
       THEN /\ RaiseInTry("RuntimeError", "no_format")
            /\ UNCHANGED dl_dir
       ELSE /\ dl_dir' = "exists"
            /\ pc' = IF Len(WantedUrls(outputs, download_format)) > 0
                     THEN "downloading" ELSE "import"
            /\ UNCHANGED <<exc, cause, work_dir, progress>>
    /\ UNCHANGED <<config, notes, http, upload, poll, fetch>>

(* One iteration of the loop of _download: fetch one URL and save it.  A   *)
(* failure leaves _download before run has bound dl_dir, so only the outer *)
(* finally runs.                                                           *)
DownloadOne(code) ==
    /\ script = "slicer_runner"
    /\ pc = "downloading"
    /\ lastStep' = "download"
    /\ lastCode' = code
    /\ IF raise_for_status(code)
       THEN /\ RaiseInTry("HTTPError", "http")
            /\ UNCHANGED downloaded
       ELSE /\ downloaded' = Append(downloaded,
                    WantedUrls(outputs, download_format)[Len(downloaded) + 1])
            /\ pc' = IF Len(downloaded') < Len(WantedUrls(outputs, download_format))
                     THEN "downloading" ELSE "import"
            /\ UNCHANGED <<exc, cause, work_dir, progress>>
    /\ UNCHANGED <<config, notes, dl_dir, upload, poll, imported>>

(* _import inside the inner try, then both finally blocks. *)
Import(ok) ==
    /\ script = "slicer_runner"
    /\ pc = "import"
    /\ IF ok
       THEN /\ imported' = TRUE
            /\ pc' = "returned"
            /\ UNCHANGED <<exc, cause>>
       ELSE /\ pc' = "raised"
            /\ exc' = "SlicerError"
            /\ cause' = "import"
            /\ UNCHANGED imported
    /\ dl_dir' = "removed"
    /\ work_dir' = "removed"
    /\ progress' = Close(progress)
    /\ UNCHANGED <<config, notes, http, upload, poll, downloaded>>

(* get_request.py: one iteration of the loop up to the sleep. *)
TutorialGet(status) ==
    /\ script = "get_request"
    /\ pc = "poll"
    /\ nQueries < MaxQueries
    /\ nQueries' = nQueries + 1
    /\ lastStatus' = status
    /\ lastGap' = IF nQueries > 0 THEN {sleptSinceQuery} ELSE lastGap
    /\ sleptSinceQuery' = 0
    /\ pc' = IF TutorialDone(status) THEN "exited" ELSE "sleep"
    /\ UNCHANGED <<config, exc, cause, progress, notes, work_dir, dl_dir, http,
                   upload, processedRid, respOutput, outputs, sleepsLeft, fetch>>

(* get_request.py: time.sleep(10). *)
TutorialSleep ==
    /\ script = "get_request"
    /\ pc = "sleep"
    /\ sleptSinceQuery' = sleptSinceQuery + TutorialInterval
    /\ pc' = "poll"
    /\ UNCHANGED <<config, exc, cause, progress, notes, work_dir, dl_dir, http,
                   upload, nQueries, lastStatus, processedRid, respOutput,
                   outputs, sleepsLeft, lastGap, fetch>>

----------------------------------------------------------------------------
Next ==
    \/ \E m \in Models, mid \in ModelIds, uf \in FormatArgs, df \in FormatArgs,
          eo \in ExtraOutputs, pd \in PollDelays, sp \in BOOLEAN :
            Construct(m, mid, uf, df, eo, pd, sp)
    \/ \E n \in Notes : RunFindVolume(n)
    \/ \E ok \in BOOLEAN : Export(ok)
    \/ \E code \in Codes, reqid \in RequestIds : Post(code, reqid)
    \/ \E code \in Codes, status \in Statuses, out \in OutputFields :
            PollQuery(code, status, out)
    \/ Sleep
    \/ DownloadBegin
    \/ \E code \in Codes : DownloadOne(code)
    \/ \E ok \in BOOLEAN : Import(ok)
    \/ \E status \in Statuses : TutorialGet(status)
    \/ TutorialSleep

Spec == Init /\ [][Next]_vars

----------------------------------------------------------------------------
(* Properties *)

Terminated == pc \in {"returned", "raised"}
TerminalStatuses == {"processed", "failed"}
NamedExceptions == {"APIKeyError", "UnsupportedFileTypeError", "InferenceError",
                    "PrecheckError", "ModelNotFoundError"}
MissingFieldCauses == {"no_request_id", "no_output", "no_format"}
Is2xx(code) == code >= 200 /\ code < 300
Is4xx5xx(code) == code >= 400 /\ code < 600
IsPrefix(s, t) == Len(s) <= Len(t) /\ s = SubSeq(t, 1, Len(s))

(* C1: once a status query has answered "processed" or "failed", the poll  *)
(* loop is left: the program is neither about to query again nor sleeping. *)
TerminalStatusStopsPolling ==
    lastStatus \in TerminalStatuses => pc \notin {"poll", "sleep"}

(* C2: the number of status queries issued for one request id never        *)
(* exceeds the maximum retry count.                                        *)
QueriesBoundedByMaxRetries == nQueries <= max_retries

(* C3: nothing is downloaded or imported before a status query for the rid *)
(* returned by the upload answered "processed"; the URLs downloaded are    *)
(* entries of that response's output for download_format, in order, and    *)
(* all of them once _download has returned.                                *)
FetchOnlyOnceProcessed ==
    /\ (pc \in {"download", "downloading", "import", "returned"}
            \/ dl_dir # "none" \/ downloaded # <<>> \/ imported)
        => /\ rid \notin {NoneVal, ""}
           /\ rid = respRid
           /\ processedRid = rid
           /\ lastStatus = "processed"
           /\ respOutput.has
    /\ downloaded # <<>>
        => /\ download_format \in DOMAIN respOutput.val
           /\ IsPrefix(downloaded, respOutput.val[download_format])
    /\ (pc \in {"import", "returned"} \/ imported)
        => /\ download_format \in DOMAIN respOutput.val
           /\ downloaded = respOutput.val[download_format]

FetchedAllOutputs ==
    /\ pc = "returned"
    /\ imported
    /\ Len(downloaded) >= 2
    /\ nQueries >= 2
    /\ DOMAIN respOutput.val = Formats

(* The run has stopped on the HTTP error of its last request, with none of *)
(* the later steps done.                                                   *)
StoppedOnHttpError ==
    /\ pc = "raised"
    /\ exc = "HTTPError"
    /\ ~imported
    /\ lastStep = "upload" => (nQueries = 0 /\ rid = NoneVal)
    /\ lastStep = "status" => (dl_dir = "none" /\ downloaded = <<>>)

(* C4: a non-2xx response to the upload, a status query or a download ends *)
(* the run with an error and none of the later steps is performed.         *)
Non2xxStopsRun ==
    (lastStep # "none" /\ ~Is2xx(lastCode)) => StoppedOnHttpError

(* C4, amended: a 4xx or 5xx response to the upload, a status query or a   *)
(* download ends the run with an HTTP error and none of the later steps is *)
(* performed.                                                              *)
HttpErrorStopsRun ==
    (lastStep # "none" /\ Is4xx5xx(lastCode)) => StoppedOnHttpError

DownloadFailedPartWay ==
    /\ pc = "raised"
    /\ lastStep = "download"
    /\ lastCode = 404
    /\ Len(downloaded) = 1

(* C5: a missing field in a 2xx response (no request_id, no output, the    *)
(* wanted format absent) ends the run with one of the named exceptions.    *)
MissingFieldRaisesNamedException ==
    (pc = "raised" /\ cause \in MissingFieldCauses) => exc \in NamedExceptions

(* C6: the upload carries model, model_id and notes, and extra_output_type *)
(* exactly when one is configured; the rid returned is the non-empty       *)
(* request_id of the upload response; without one the run fails and no     *)
(* status query is issued.                                                 *)
SubmitYieldsRequestId ==
    /\ lastStep # "none"
        => /\ payload.model = model
           /\ payload.model_id = model_id
           /\ payload.model_id \in {ToString(n) : n \in ModelIds}
           /\ payload.notes = notes
           /\ "extra_output_type" \in DOMAIN payload <=> extra_output \notin {NoneVal, ""}
           /\ "extra_output_type" \in DOMAIN payload
                => payload.extra_output_type = extra_output
    /\ rid # NoneVal => (rid # "" /\ rid = respRid)
    /\ (script = "slicer_runner" /\ nQueries > 0) => rid \notin {NoneVal, ""}
    /\ (lastStep = "upload" /\ Is2xx(lastCode) /\ respRid \in {NoneVal, ""})
        => (pc = "raised" /\ nQueries = 0)

UploadReturnedRid ==
    /\ pc = "poll"
    /\ nQueries = 1
    /\ rid = "r1"
    /\ "extra_output_type" \in DOMAIN payload

(* C7: the poll interval is never negative. *)
IntervalNonNegative == poll_delay >= 0

(* The configured interval between two status queries, in seconds. *)
Interval == IF script = "get_request" THEN TutorialInterval ELSE poll_delay

(* C8: exactly the configured interval is slept between two consecutive    *)
(* status queries, and nothing is slept after a terminal status.           *)
FixedIntervalBetweenQueries ==
    /\ \A g \in lastGap : g = Interval
    /\ lastStatus \in TerminalStatuses => sleptSinceQuery = 0

(* C9: when run has returned or raised, no temporary directory exists. *)
NoTempDirOutlivesRun ==
    Terminated => (work_dir # "exists" /\ dl_dir # "exists")

(* C10: when run of a client built with show_progress has returned or      *)
(* raised, the progress dialog is closed.                                  *)
ProgressDialogClosed ==
    (show_progress /\ Terminated) => progress = "closed"

====
